---- MODULE Spec2Model ----
(***************************************************************************)
(* Model of the Waguri AI inference service (src/main.py): the one-time    *)
(* model load run by the startup event, the adapter activation done at     *)
(* load time, and the /chat handler with generate_response (message        *)
(* assembly, chat template, tokenization with truncation, generation,      *)
(* slicing of the generated span, error mapping).                          *)
(*                                                                         *)
(* Handlers are coroutines on one event loop: a handler keeps the loop     *)
(* until it returns or awaits.  Texts are abstracted to an identity and a  *)
(* token count; token sequences are run-length encoded lists of segments.  *)
(***************************************************************************)
EXTENDS Integers, Sequences, FiniteSets, TLC

VARIABLES
    lifespan,    \* does the host deliver the startup event to the app
    server,      \* "starting" | "serving" | "exited"
    loadpc,      \* load_model: "idle" | "done" | "raised"
    tokenizer,   \* global tokenizer: "None" | "loaded"
    model,       \* global model:     "None" | "loaded"
    registry,    \* lora_model.peft_config: [present, keys]
    active,      \* adapters currently routed into the forward pass
    active0,     \* selection PeftModel.from_pretrained left behind
    loads,       \* number of load_model invocations so far
    running,     \* owner of the event loop: "none" | "startup" | request id
    pc,          \* pc[r]: position of request r inside chat/generate_response
    body,        \* body[r]: JSON body as posted by the caller
    request,     \* request[r]: the parsed ChatRequest
    messages,    \* messages[r]: list built by generate_response
    text,        \* text[r]: chat-formatted token sequence (before truncation)
    inputs,      \* inputs[r]: input_ids handed to model.generate
    outputs,     \* outputs[r]: outputs[0] of model.generate
    generated,   \* generated[r]: generated_ids, the decoded span
    exc,         \* exc[r]: exception caught by chat, if any
    resp,        \* resp[r]: HTTP response sent to the caller
    seen,        \* seen[r]: globals observed by the request when dispatched
    health       \* last /health answer

vars == <<lifespan, server, loadpc, tokenizer, model, registry, active, active0,
          loads, running, pc, body, request, messages, text, inputs, outputs,
          generated, exc, resp, seen, health>>

loadVars == <<lifespan, server, loadpc, tokenizer, model, registry, active,
              active0, loads>>
reqVars  == <<pc, body, request, messages, text, inputs, outputs, generated,
              exc, resp, seen>>

-----------------------------------------------------------------------------
(* Program constants *)

MAX_SEQ_LEN == 512
MAX_NEW_TOKENS == 256
HISTORY_WINDOW == 6

\* Token count of the fixed system prompt text.
SysTokens == 40
\* Qwen chat template: "<|im_start|>" role "\n" ... "<|im_end|>" "\n"
OpenTokens == 3
CloseTokens == 2

(* Bounds of the model *)
MaxHist == 7          \* longest history posted
LongTokens == 100     \* token count of a long history turn
MaxEos == 257         \* latest step at which the sampler may emit EOS

Requests == {"r1", "r2"}

-----------------------------------------------------------------------------
(* Texts, turns, histories *)

Text(id, n) == [id |-> id, n |-> n]
EmptyText == Text(0, 0)
SYSTEM_PROMPT == Text(1000, SysTokens)

Turn(role, content) == [role |-> role, content |-> content]

\* A well-formed history of n turns: user/assistant alternating, ending with
\* an assistant turn, turn i carrying text number i of w tokens.
RoleAt(i, n) == IF (n - i) % 2 = 0 THEN "assistant" ELSE "user"
AltHistory(n, w) == [i \in 1..n |-> Turn(RoleAt(i, n), Text(i, w))]

Body(m, noneHist, h, lang) ==
    [message |-> m, noneHist |-> noneHist, history |-> h, language |-> lang]

Languages == {"primary", "secondary"}

-----------------------------------------------------------------------------
(* Adapter names are strings, modelled as sequences of characters *)

Digits == {"0", "1", "2", "3", "4", "5", "6", "7", "8", "9"}

AdapterNames == {<<"0">>, <<"1", "2">>, <<"v", "2">>}
DefaultAdapter == <<"d", "e", "f", "a", "u", "l", "t">>

\* str.isdigit(): non-empty and every character a digit
IsDigitAny(k) == \E i \in 1..Len(k) : k[i] \in Digits
IsDigit(k) == Len(k) > 0 /\ \A i \in 1..Len(k) : k[i] \in Digits

\* What PeftModel.from_pretrained may hand back: a model exposing the nested
\* adapter registry (base_model.lora_model.peft_config) with any set of
\* adapters, or a plain single-adapter model without it.
Registries ==
    {[exposed |-> TRUE, keys |-> K] : K \in SUBSET AdapterNames}
      \cup {[exposed |-> FALSE, keys |-> {DefaultAdapter}]}

InitialSelections(reg) ==
    IF reg.exposed THEN {{}} \cup {{k} : k \in reg.keys} ELSE {reg.keys}

\* lora_model.set_adapter(names): raises on an unknown name, which the
\* surrounding try/except swallows, leaving the selection as it was.
set_adapter(reg, act, names) == IF names \subseteq reg.keys THEN names ELSE act

\* Step 4 of load_model: the selection after the X-LoRA activation block
ActivateXLora(reg, act) ==
    IF reg.exposed
    THEN LET numeric_adapter_names == {k \in reg.keys : IsDigit(k)}
         IN  IF numeric_adapter_names # {}
             THEN set_adapter(reg, act, numeric_adapter_names)
             ELSE act
    ELSE act

-----------------------------------------------------------------------------
(* Startup *)

\* Where load_model may raise: nowhere, in the tokenizer load, in the base
\* model load, in the adapter load.
LoadOutcomes == {"ok", "tokenizer", "base", "peft"}

\* startup_event lets an exception of load_model propagate: the host then
\* aborts the startup and the process exits without serving.
StartupResultServing(outcome) == "serving"
StartupResult(outcome) == IF outcome = "ok" THEN "serving" ELSE "exited"

\* startup_event -> load_model, run once by the host before it serves
startup_event ==
    /\ server = "starting"
    /\ lifespan
    /\ loadpc = "idle"
    /\ loads' = loads + 1
    /\ \E outcome \in LoadOutcomes :
         /\ tokenizer' = IF outcome = "tokenizer" THEN "None" ELSE "loaded"
         /\ model' = IF outcome = "ok" THEN "loaded" ELSE "None"
         /\ loadpc' = IF outcome = "ok" THEN "done" ELSE "raised"
         /\ server' = StartupResult(outcome)
         /\ IF outcome = "ok"
            THEN \E reg \in Registries : \E sel \in InitialSelections(reg) :
                    /\ registry' = reg
                    /\ active0' = sel
                    /\ active' = ActivateXLora(reg, sel)
            ELSE UNCHANGED <<registry, active0, active>>
    /\ UNCHANGED <<lifespan, running, health>>
    /\ UNCHANGED reqVars

\* A host that does not run the lifespan protocol serves the app with the
\* startup handler never called.
ServeWithoutStartup ==
    /\ server = "starting"
    /\ ~lifespan
    /\ server' = "serving"
    /\ UNCHANGED <<lifespan, loadpc, tokenizer, model, registry, active,
                   active0, loads, running, health>>
    /\ UNCHANGED reqVars

\* GET /health
health_check ==
    /\ server = "serving"
    /\ running = "none"
    /\ health' = [status |-> "healthy", model_loaded |-> (model # "None")]
    /\ UNCHANGED loadVars
    /\ UNCHANGED running
    /\ UNCHANGED reqVars

-----------------------------------------------------------------------------
(* Token sequences, run-length encoded: a segment is n tokens that render   *)
(* one part of turn number `turn` of the message list (turn 0: the          *)
(* generation prompt; kind "new": tokens sampled by the model).             *)

Seg(turn, kind, n) == [turn |-> turn, kind |-> kind, n |-> n]

RECURSIVE TokCount(_)
TokCount(seq) == IF seq = <<>> THEN 0 ELSE Head(seq).n + TokCount(Tail(seq))

\* seq[:k]
RECURSIVE TakeTokens(_, _)
TakeTokens(seq, k) ==
    IF k <= 0 \/ seq = <<>> THEN <<>>
    ELSE IF Head(seq).n <= k
         THEN <<Head(seq)>> \o TakeTokens(Tail(seq), k - Head(seq).n)
         ELSE <<Seg(Head(seq).turn, Head(seq).kind, k)>>

\* seq[k:]
RECURSIVE DropTokens(_, _)
DropTokens(seq, k) ==
    IF seq = <<>> THEN <<>>
    ELSE IF k <= 0 THEN seq
    ELSE IF Head(seq).n <= k
         THEN DropTokens(Tail(seq), k - Head(seq).n)
         ELSE <<Seg(Head(seq).turn, Head(seq).kind, Head(seq).n - k)>> \o Tail(seq)

NonEmptySeg(sg) == sg.n > 0

\* "<|im_start|>role\n" content "<|im_end|>\n" for turn i of the list
RenderTurn(i, msg) ==
    <<Seg(i, "open", OpenTokens), Seg(i, "content", msg.content.n),
      Seg(i, "close", CloseTokens)>>

RECURSIVE RenderFrom(_, _)
RenderFrom(msgs, i) ==
    IF i > Len(msgs) THEN <<>>
    ELSE RenderTurn(i, msgs[i]) \o RenderFrom(msgs, i + 1)

\* tokenizer.apply_chat_template(messages, add_generation_prompt=True),
\* as the tokens its text encodes to
apply_chat_template(msgs) ==
    SelectSeq(RenderFrom(msgs, 1) \o <<Seg(0, "gen", OpenTokens)>>, NonEmptySeg)

\* tokenizer(text, truncation=True, max_length=MAX_SEQ_LEN): the tokenizer
\* truncates on its default side, the right: the first max_length tokens stay
Tokenize(txt, max_length) ==
    IF TokCount(txt) > max_length THEN TakeTokens(txt, max_length) ELSE txt

\* model.generate(**inputs, max_new_tokens=...): the prompt followed by the
\* sampled tokens, sampling stopped by EOS at step eos or by the cap
Min(a, b) == IF a <= b THEN a ELSE b
Generate(inp, eos, max_new_tokens) ==
    inp \o <<Seg(0 - 1, "new", Min(eos, max_new_tokens))>>

\* outputs[0][inputs["input_ids"].shape[-1]:]
GeneratedIdsEcho(outs, inp) == outs
GeneratedIds(outs, inp) == DropTokens(outs, TokCount(inp))

-----------------------------------------------------------------------------
(* generate_response: the message list *)

\* The system turn.  generate_response receives only message and history:
\* the posted body b (and any language selector in it) plays no part.
SystemTurnByLanguage(b) ==
    Turn("system", IF b.language = "primary" THEN SYSTEM_PROMPT
                   ELSE Text(1001, SysTokens))
SystemTurn(b) == Turn("system", SYSTEM_PROMPT)

\* history[-6:]
HistoryHead(h) == SubSeq(h, 1, Min(Len(h), HISTORY_WINDOW))
HistoryWindow(h) ==
    SubSeq(h, IF Len(h) > HISTORY_WINDOW THEN Len(h) - HISTORY_WINDOW + 1 ELSE 1,
           Len(h))

BuildMessages(b, message, history) ==
    <<SystemTurn(b)>> \o HistoryWindow(history) \o <<Turn("user", message)>>

\* ChatRequest(message, history): the fields pydantic keeps of the body
ParseChatRequest(b) ==
    [message |-> b.message, noneHist |-> b.noneHist, history |-> b.history]

NoExc == [type |-> "", text |-> ""]
NoResp == [status |-> 0, detail |-> ""]
Exc(type, txt) == [type |-> type, text |-> txt]

-----------------------------------------------------------------------------
(* The event loop *)

\* Positions of chat at which the coroutine awaits and hands the loop to
\* another handler: chat calls generate_response synchronously, so none.
AwaitPointsThreaded ==
    {"build", "template", "tokenize", "generate", "generating", "decode", "except"}
AwaitPoints == {}

Holds(r) == running = r \/ (running = "none" /\ pc[r] \in AwaitPoints)
Release(r, newpc) == IF newpc \in AwaitPoints \cup {"done"} THEN "none" ELSE r

Raise(r, e) ==
    /\ exc' = [exc EXCEPT ![r] = e]
    /\ pc' = [pc EXCEPT ![r] = "except"]
    /\ running' = Release(r, "except")

Goto(r, newpc) ==
    /\ pc' = [pc EXCEPT ![r] = newpc]
    /\ running' = Release(r, newpc)

-----------------------------------------------------------------------------
(* POST /chat *)

\* A connection is accepted; its handler waits for the loop.
Arrive(r) ==
    /\ server = "serving"
    /\ pc[r] = "idle"
    /\ pc' = [pc EXCEPT ![r] = "queued"]
    /\ UNCHANGED loadVars
    /\ UNCHANGED <<running, health, body, request, messages, text, inputs,
                   outputs, generated, exc, resp, seen>>

\* chat(request) is entered with the parsed body
chat(r, bodies) ==
    /\ server = "serving"
    /\ pc[r] = "queued"
    /\ running = "none"
    /\ \E b \in bodies :
         /\ body' = [body EXCEPT ![r] = b]
         /\ request' = [request EXCEPT ![r] = ParseChatRequest(b)]
    /\ seen' = [seen EXCEPT ![r] = [tokenizer |-> tokenizer, model |-> model]]
    /\ Goto(r, "build")
    /\ UNCHANGED loadVars
    /\ UNCHANGED <<health, messages, text, inputs, outputs, generated, exc, resp>>

\* generate_response: build the message list
build(r) ==
    /\ pc[r] = "build"
    /\ Holds(r)
    /\ IF request[r].noneHist
       THEN /\ Raise(r, Exc("TypeError", "'NoneType' object is not subscriptable"))
            /\ UNCHANGED messages
       ELSE /\ messages' = [messages EXCEPT ![r] =
                  BuildMessages(body[r], request[r].message, request[r].history)]
            /\ Goto(r, "template")
            /\ UNCHANGED exc
    /\ UNCHANGED loadVars
    /\ UNCHANGED <<health, body, request, text, inputs, outputs, generated,
                   resp, seen>>

\* generate_response: tokenizer.apply_chat_template
template(r) ==
    /\ pc[r] = "template"
    /\ Holds(r)
    /\ IF tokenizer = "None"
       THEN /\ Raise(r, Exc("AttributeError",
                   "'NoneType' object has no attribute 'apply_chat_template'"))
            /\ UNCHANGED text
       ELSE /\ text' = [text EXCEPT ![r] = apply_chat_template(messages[r])]
            /\ Goto(r, "tokenize")
            /\ UNCHANGED exc
    /\ UNCHANGED loadVars
    /\ UNCHANGED <<health, body, request, messages, inputs, outputs, generated,
                   resp, seen>>

\* generate_response: tokenizer(text, truncation=True, max_length=MAX_SEQ_LEN)
tokenize(r) ==
    /\ pc[r] = "tokenize"
    /\ Holds(r)
    /\ inputs' = [inputs EXCEPT ![r] = Tokenize(text[r], MAX_SEQ_LEN)]
    /\ Goto(r, "generate")
    /\ UNCHANGED loadVars
    /\ UNCHANGED <<health, body, request, messages, text, outputs, generated,
                   exc, resp, seen>>

\* generate_response: model.generate is called
generate_call(r) ==
    /\ pc[r] = "generate"
    /\ Holds(r)
    /\ IF model = "None"
       THEN Raise(r, Exc("AttributeError",
                   "'NoneType' object has no attribute 'generate'"))
       ELSE Goto(r, "generating") /\ UNCHANGED exc
    /\ UNCHANGED loadVars
    /\ UNCHANGED <<health, body, request, messages, text, inputs, outputs,
                   generated, resp, seen>>

\* model.generate returns the sampled sequence, or raises
generate_return(r, eoses) ==
    /\ pc[r] = "generating"
    /\ Holds(r)
    /\ \/ \E eos \in eoses :
            /\ outputs' = [outputs EXCEPT ![r] =
                              Generate(inputs[r], eos, MAX_NEW_TOKENS)]
            /\ Goto(r, "decode")
            /\ UNCHANGED exc
       \/ /\ Raise(r, Exc("RuntimeError", "not enough memory"))
          /\ UNCHANGED outputs
    /\ UNCHANGED loadVars
    /\ UNCHANGED <<health, body, request, messages, text, inputs, generated,
                   resp, seen>>

\* generate_response slices and decodes the new tokens; chat returns them
decode_return(r) ==
    /\ pc[r] = "decode"
    /\ Holds(r)
    /\ generated' = [generated EXCEPT ![r] = GeneratedIds(outputs[r], inputs[r])]
    /\ resp' = [resp EXCEPT ![r] = [status |-> 200, detail |-> ""]]
    /\ Goto(r, "done")
    /\ UNCHANGED loadVars
    /\ UNCHANGED <<health, body, request, messages, text, inputs, outputs,
                   exc, seen>>

\* chat: except Exception as e -> HTTPException(500, detail=str(e))
ErrorDetail(e) == e.text

chat_except(r) ==
    /\ pc[r] = "except"
    /\ Holds(r)
    /\ resp' = [resp EXCEPT ![r] = [status |-> 500, detail |-> ErrorDetail(exc[r])]]
    /\ Goto(r, "done")
    /\ UNCHANGED loadVars
    /\ UNCHANGED <<health, body, request, messages, text, inputs, outputs,
                   generated, exc, seen>>

Handle(r, bodies, eoses) ==
    \/ Arrive(r)
    \/ chat(r, bodies)
    \/ build(r)
    \/ template(r)
    \/ tokenize(r)
    \/ generate_call(r)
    \/ generate_return(r, eoses)
    \/ decode_return(r)
    \/ chat_except(r)

-----------------------------------------------------------------------------
(* Inputs *)

Hello == Text(100, 1)

\* Histories a caller may post that break the conversation shape
SystemInHistory == <<Turn("user", Text(1, 2)), Turn("system", Text(2, 2))>>
EmptyInHistory == <<Turn("user", EmptyText), Turn("assistant", Text(2, 2))>>
TwoUsers == <<Turn("user", Text(1, 2))>>

RichHistories ==
    {AltHistory(n, w) : n \in 0..MaxHist, w \in {2, LongTokens}}
      \cup {SystemInHistory, EmptyInHistory, TwoUsers}

RichBodies ==
    {Body(m, FALSE, h, l) : m \in {EmptyText, Hello}, h \in RichHistories,
                            l \in Languages}
      \cup {Body(Hello, TRUE, <<>>, l) : l \in Languages}

SmallBodies ==
    {Body(Hello, FALSE, h, l) : h \in {<<>>, AltHistory(2, 2)}, l \in Languages}
      \cup {Body(Hello, TRUE, <<>>, "primary")}

RichEos == {1, 2, MAX_NEW_TOKENS - 1, MAX_NEW_TOKENS, MaxEos}
SmallEos == {1, MaxEos}

-----------------------------------------------------------------------------
(* Specifications *)

Init ==
    /\ lifespan \in BOOLEAN
    /\ server = "starting"
    /\ loadpc = "idle"
    /\ tokenizer = "None"
    /\ model = "None"
    /\ registry = [exposed |-> FALSE, keys |-> {}]
    /\ active = {}
    /\ active0 = {}
    /\ loads = 0
    /\ running = "none"
    /\ pc = [r \in Requests |-> "idle"]
    /\ body = [r \in Requests |-> Body(EmptyText, FALSE, <<>>, "primary")]
    /\ request = [r \in Requests |-> ParseChatRequest(body[r])]
    /\ messages = [r \in Requests |-> <<>>]
    /\ text = [r \in Requests |-> <<>>]
    /\ inputs = [r \in Requests |-> <<>>]
    /\ outputs = [r \in Requests |-> <<>>]
    /\ generated = [r \in Requests |-> <<>>]
    /\ exc = [r \in Requests |-> NoExc]
    /\ resp = [r \in Requests |-> NoResp]
    /\ seen = [r \in Requests |-> [tokenizer |-> "None", model |-> "None"]]
    /\ health = [status |-> "", model_loaded |-> FALSE]

\* Concurrent requests, small inputs
Next ==
    \/ startup_event
    \/ ServeWithoutStartup
    \/ health_check
    \/ \E r \in Requests : Handle(r, SmallBodies, SmallEos)

Spec == Init /\ [][Next]_vars

\* One request, the full range of inputs
NextPrompt ==
    \/ startup_event
    \/ ServeWithoutStartup
    \/ health_check
    \/ Handle("r1", RichBodies, RichEos)

SpecPrompt == Init /\ [][NextPrompt]_vars

-----------------------------------------------------------------------------
(* Properties *)

Dispatched(r) == pc[r] \notin {"idle", "queued"}
Built(r) == messages[r] # <<>>
Answered(r) == pc[r] = "done" /\ resp[r].status = 200
Failed(r) == pc[r] = "done" /\ exc[r] # NoExc
SawReady(r) == seen[r].tokenizer = "loaded" /\ seen[r].model = "loaded"

ServiceState ==
    IF loadpc = "raised" THEN "Failed"
    ELSE IF tokenizer = "loaded" /\ model = "loaded" THEN "Ready"
    ELSE "Loading"

RECURSIVE TurnTokens(_, _)
TurnTokens(seq, i) ==
    IF seq = <<>> THEN 0
    ELSE (IF Head(seq).turn = i THEN Head(seq).n ELSE 0) + TurnTokens(Tail(seq), i)

\* C1: a request handled while the service is not Ready is rejected with
\* ModelUnavailableError (service unavailable), and neither prompt assembly
\* nor generation is attempted for it.
C1_NotReadyRejected ==
    \A r \in Requests :
        (Dispatched(r) /\ ~SawReady(r)) =>
            /\ messages[r] = <<>>
            /\ text[r] = <<>>
            /\ pc[r] # "generating"
            /\ pc[r] = "done" =>
                  (resp[r].status = 503 /\ exc[r].type = "ModelUnavailableError")

\* C2: at most one request is inside model.generate at any time.
C2_OneInGenerate ==
    \A r1, r2 \in Requests :
        (pc[r1] = "generating" /\ pc[r2] = "generating") => r1 = r2

C2_Witness ==
    \E r1, r2 \in Requests :
        r1 # r2 /\ pc[r1] = "generating" /\ pc[r2] = "queued"

\* C3: after the load, if some adapter identifier is numeric-named the active
\* selection is exactly the numeric-named identifiers, otherwise it is the
\* selection the adapter load left; it is a subset of the adapter set's keys,
\* and the load has not raised.
NumericNames == {<<"0">>, <<"1", "2">>}

C3_AdapterActivation ==
    (server # "starting" /\ model = "loaded") =>
        /\ loadpc = "done"
        /\ (registry.keys \cap NumericNames # {}) =>
               active = registry.keys \cap NumericNames
        /\ (registry.keys \cap NumericNames = {}) => active = active0
        /\ active \subseteq registry.keys

C3_Witness ==
    /\ loadpc = "done"
    /\ <<"v", "2">> \in registry.keys
    /\ active = {<<"0">>, <<"1", "2">>}
    /\ active0 = {<<"v", "2">>}

\* C4: when the chat-formatted prompt exceeds MAX_SEQ_LEN tokens, the
\* truncated prompt keeps every token of the system directive and of the
\* newest user message, and tokens are removed only from the oldest history
\* turns.
C4_TruncationKeepsNewest ==
    \A r \in Requests :
        (inputs[r] # <<>> /\ TokCount(text[r]) > MAX_SEQ_LEN) =>
            LET n == Len(messages[r])
                Removed(i) == TurnTokens(text[r], i) - TurnTokens(inputs[r], i)
            IN  /\ Removed(1) = 0
                /\ Removed(n) = 0
                /\ Removed(0) = 0
                /\ \A j, k \in 2..(n - 1) :
                      (j < k /\ Removed(k) > 0) => TurnTokens(inputs[r], j) = 0

\* C5: a failed chat request is answered with a stable, user-safe message:
\* the same for every failure, and not the text of the underlying exception.
C5_SafeErrorMessage ==
    \A r1, r2 \in Requests :
        (Failed(r1) /\ Failed(r2)) =>
            /\ resp[r1].detail # exc[r1].text
            /\ resp[r1].detail = resp[r2].detail

\* C6: the load runs once, at process start, and never again; Ready stays
\* Ready and Failed stays Failed; no request (chat or health) observes a
\* partly loaded service (tokenizer present and model absent, or the
\* reverse).
C6_Inv ==
    /\ loads <= 1
    /\ (lifespan /\ server # "starting") => loads = 1
    /\ \A r \in Requests :
          Dispatched(r) => (seen[r].tokenizer = "loaded" <=> seen[r].model = "loaded")
    /\ health.status = "healthy" => (health.model_loaded <=> tokenizer = "loaded")

C6_Step ==
    /\ ServiceState = "Ready" => ServiceState' = "Ready"
    /\ ServiceState = "Failed" => ServiceState' = "Failed"
    /\ ServiceState' # ServiceState => (server = "starting" /\ loads' = loads + 1)
    /\ loads' # loads => server = "starting"

C8_MessageList ==
    \A r \in Requests :
        Built(r) =>
            LET h == body[r].history
                k == IF Len(h) < 6 THEN Len(h) ELSE 6
                m == messages[r]
            IN  /\ Len(m) = k + 2
                /\ m[1].role = "system"
                /\ \A j \in 1..k : m[1 + j] = h[Len(h) - k + j]
                /\ m[k + 2] = [role |-> "user", content |-> body[r].message]
                /\ request[r].history = h

C8_Witness ==
    \E r \in Requests :
        /\ Built(r)
        /\ Len(body[r].history) = 7
        /\ messages[r][2] = body[r].history[2]

\* C9: every assembled conversation starts with a system turn, has no later
\* system turn, alternates user/assistant up to the new user message, and has
\* no empty content; an empty new message is refused with AssemblyError.
C9_ConversationInvariant ==
    \A r \in Requests :
        /\ Built(r) =>
              LET m == messages[r]
              IN  /\ m[1].role = "system"
                  /\ \A i \in 2..Len(m) : m[i].role \in {"user", "assistant"}
                  /\ \A i \in 2..(Len(m) - 1) : m[i].role # m[i + 1].role
                  /\ m[Len(m)].role = "user"
                  /\ \A i \in 1..Len(m) : m[i].content.n > 0
        /\ (Dispatched(r) /\ pc[r] # "build" /\ request[r].message.n = 0) =>
              (~Built(r) /\ exc[r].type = "AssemblyError")

\* C10: the decoded span is exactly the tokens generated after the prompt:
\* no token of the prompt, as many tokens as were generated, and at most
\* MAX_NEW_TOKENS of them.
C10_GeneratedSpan ==
    \A r \in Requests :
        Answered(r) =>
            LET p == TokCount(inputs[r])
                g == TokCount(outputs[r]) - p
            IN  /\ \A i \in 1..Len(generated[r]) : generated[r][i].kind = "new"
                /\ TokCount(generated[r]) = g
                /\ g <= 256
                /\ p <= 512

C10_Witness ==
    \E r \in Requests :
        /\ Answered(r)
        /\ TokCount(text[r]) > 512
        /\ TokCount(inputs[r]) = 512
        /\ TokCount(generated[r]) = 256

====
